---- MODULE Spec2Model ----
(***************************************************************************)
(* ScanFlow fetcher: the checkpointed marketplace crawl (index.ts), the    *)
(* pending-book evaluation pass (evaluate.ts) and the store accessors      *)
(* (supabase.ts, found in src/scripts/ebay-auth.ts from line 104 on).      *)
(*                                                                         *)
(* ebayApi.ts, keepaApi.ts and config.ts are not among the sources; what   *)
(* the model needs of them is taken from spec.md and marked so.            *)
(***************************************************************************)
EXTENDS Integers, Sequences, FiniteSets, TLC

\* ------------------------------------------------------------------------
\* JavaScript values.  Every value is a record tagged by t, so that values
\* of different kinds can be compared.  A number is i + n/d with 0 <= n < d
\* (exact; binary floating-point representation error is not modelled).
\* ------------------------------------------------------------------------
Undef == [t |-> "undefined"]
Null == [t |-> "null"]
NaN == [t |-> "nan"]
PosInf == [t |-> "inf", neg |-> FALSE]
NegInf == [t |-> "inf", neg |-> TRUE]
Str(s) == [t |-> "str", v |-> s]
Num(i, n, d) == [t |-> "num", i |-> i, n |-> n, d |-> d]
Int0(i) == Num(i, 0, 1)

\* v == null / v != null in JavaScript: true of null and of undefined
IsNullish(v) == v.t \in {"null", "undefined"}

\* Number.isFinite(v)
IsFinite(v) == v.t = "num"

\* Math.round(v): the nearest integer, halves rounded towards +infinity;
\* NaN and the infinities are returned as they are
MathRound(v) ==
    IF v.t = "num" THEN Int0(v.i + (IF 2 * v.n >= v.d THEN 1 ELSE 0)) ELSE v

\* v * k for a positive integer k
Times(v, k) ==
    IF v.t = "num"
    THEN Num(v.i * k + ((v.n * k) \div v.d), (v.n * k) % v.d, v.d)
    ELSE v

\* v / 10 for an integer-valued v (the second half of the one-decimal rounding)
DivTen(v) ==
    IF v.t = "num" THEN Num(v.i \div 10, v.i % 10, 10) ELSE v

\* a ?? undefined
OrUndefined(v) == IF IsNullish(v) THEN Undef ELSE v

\* ------------------------------------------------------------------------
\* The catalog table ebay_books: a sequence of rows, isbn unique.
\* ------------------------------------------------------------------------
NullTime == 0

EvalFields ==
    {"asin", "amazon_price", "sales_rank", "sales_rank_drops_90", "fba_profit",
     "fbm_profit", "amazon_flag", "book_type", "weight_oz"}

IntFields ==
    {"amazon_price", "sales_rank", "sales_rank_drops_90", "fba_profit", "fbm_profit"}

\* a row as insertBooks stores a ScrapedBook: the evaluation columns take
\* the column default, null
NewRow(isbn, seller, price, shipping, scrapedAt) ==
    [isbn |-> isbn, seller |-> seller, price |-> price, shipping |-> shipping,
     scraped_at |-> scrapedAt, decision |-> Null, evaluated_at |-> NullTime,
     asin |-> Null, amazon_price |-> Null, sales_rank |-> Null,
     sales_rank_drops_90 |-> Null, fba_profit |-> Null, fbm_profit |-> Null,
     amazon_flag |-> Null, book_type |-> Null, weight_oz |-> Null]

Isbns(table) == {table[j].isbn : j \in 1..Len(table)}

\* the evaluation argument of updateBookEvaluation: decision and the nine
\* optional columns, an omitted one being undefined
EvalKeys == EvalFields \cup {"decision"}

\* faulty variant: an absent column is sent as null
CleanEvalNullingAbsent(evaluation, now) ==
    [k \in EvalKeys \cup {"evaluated_at"} |->
        IF k = "evaluated_at" THEN now
        ELSE IF evaluation[k] = Undef THEN Null ELSE evaluation[k]]

\* faulty variant: evaluated_at is not stamped
CleanEvalNoStamp(evaluation, now) ==
    [k \in {f \in EvalKeys : evaluation[f] # Undef} |-> evaluation[k]]

\* cleanEval of updateBookEvaluation: evaluated_at, then every entry of the
\* evaluation whose value is not undefined (null is kept)
CleanEval(evaluation, now) ==
    [k \in {"evaluated_at"} \cup {f \in EvalKeys : evaluation[f] # Undef} |->
        IF k = "evaluated_at" THEN now ELSE evaluation[k]]

\* .update(cleanEval).eq('isbn', isbn): the columns named by cleanEval are
\* set on every row whose isbn matches
UpdateRow(row, clean) ==
    [c \in DOMAIN row |-> IF c \in DOMAIN clean THEN clean[c] ELSE row[c]]

UpdateWhereIsbn(table, isbn, clean) ==
    [j \in 1..Len(table) |->
        IF table[j].isbn = isbn THEN UpdateRow(table[j], clean) ELSE table[j]]

\* updateBookEvaluation(isbn, evaluation): the table afterwards and the
\* boolean returned.  dbError is the store's answer to the update.
updateBookEvaluation(table, isbn, evaluation, now, dbError) ==
    IF dbError
    THEN [table |-> table, ok |-> FALSE]
    ELSE [table |-> UpdateWhereIsbn(table, isbn, CleanEval(evaluation, now)),
          ok |-> TRUE]

\* ------------------------------------------------------------------------
\* evaluate.ts: from the engine's result to the evaluation that is written
\* ------------------------------------------------------------------------
SafeIntBound == 2000000000

\* faulty variant: a value out of range is clamped to the bound
safeIntClamping(v) ==
    IF IsNullish(v) \/ ~IsFinite(v) THEN Undef
    ELSE LET rounded == MathRound(v)
         IN  IF rounded.i > SafeIntBound THEN Int0(SafeIntBound)
             ELSE IF rounded.i < -SafeIntBound THEN Int0(-SafeIntBound)
             ELSE rounded

safeInt(v) ==
    IF IsNullish(v) \/ ~IsFinite(v) THEN Undef
    ELSE LET rounded == MathRound(v)
         IN  IF rounded.i > SafeIntBound \/ rounded.i < -SafeIntBound
             THEN Undef
             ELSE rounded

\* x != null ? Math.round(x * 100) : undefined
ToCents(x) == IF ~IsNullish(x) THEN MathRound(Times(x, 100)) ELSE Undef

\* result.weightLbs != null ? Math.round(result.weightLbs * 16 * 10) / 10 : undefined
ToWeightOz(x) ==
    IF ~IsNullish(x) THEN DivTen(MathRound(Times(Times(x, 16), 10))) ELSE Undef

\* the object literal handed to updateBookEvaluation on the evaluated path
EvaluationOf(result) ==
    LET weightOz == ToWeightOz(result.weightLbs)
    IN  [decision |-> result.decision,
         asin |-> result.asin,
         amazon_price |-> safeInt(ToCents(result.amazonPrice)),
         sales_rank |-> safeInt(result.salesRank),
         sales_rank_drops_90 |-> safeInt(result.salesRankDrops90),
         fba_profit |-> safeInt(ToCents(result.fbaProfit)),
         fbm_profit |-> safeInt(ToCents(result.fbmProfit)),
         amazon_flag |-> OrUndefined(result.amazonFlag),
         book_type |-> OrUndefined(result.binding),
         weight_oz |-> IF ~IsNullish(weightOz) /\ IsFinite(weightOz)
                       THEN weightOz ELSE Undef]

\* faulty variant: the no-data write zeroes the numeric columns
NoDataEvaluationWithZeros ==
    [k \in EvalKeys |->
        IF k = "decision" THEN Str("REJECT")
        ELSE IF k \in IntFields THEN Int0(0) ELSE Undef]

\* the object literal handed to updateBookEvaluation on the no-data path
NoDataEvaluation ==
    [k \in EvalKeys |-> IF k = "decision" THEN Str("REJECT") ELSE Undef]

\* ------------------------------------------------------------------------
\* Configuration and environment
\* ------------------------------------------------------------------------
\* config.ts is not among the sources: one seller, two searches; the page
\* size of the marketplace API (200, index.ts line 28) and EVAL_BATCH_SIZE
\* are scaled down
SELLER == "seller1"
OtherSeller == "seller2"
SEARCHES == <<"search1", "search2">>
NumSearches == Len(SEARCHES)
PageSize == 2
EVAL_BATCH_SIZE == 2
\* pageSize of getExistingISBNs and getPendingBooks (1000), scaled down
StorePageSize == 2

\* bounds of the exploration
MaxRuns == 2
MaxFaults == 1

NoIsbn == ""
Listing(isbn, price, shipping) == [isbn |-> isbn, price |-> price, shipping |-> shipping]
L1 == Listing("k1", 1000, 300)
L2 == Listing("k2", 500, 0)
L3 == Listing("k3", 250, 150)
LNone == Listing(NoIsbn, 700, 0)

\* the static result sets the marketplace may hold for the first search
UpstreamChoices ==
    {<<L1, L2, L3>>, <<L1, LNone, L2, L2>>, <<L3>>}
SecondUpstream == <<L3, L1>>

Min(a, b) == IF a < b THEN a ELSE b

\* the page the marketplace returns at an offset: at most PageSize listings
FetchPage(items, offset) ==
    IF offset >= Len(items) THEN <<>>
    ELSE SubSeq(items, offset + 1, Min(offset + PageSize, Len(items)))

VARIABLES
    orch,           \* which main of index.ts runs: "perSeller" or "batched"
    upstream,       \* search -> the marketplace's result set (static)
    catalog,        \* table ebay_books
    checkpoint,     \* table fetcher_checkpoints: search -> last_offset, -1 for no row
    now,            \* the clock (new Date())
    run,            \* number of the current run of the process
    faults,         \* store and network errors so far
    pc,             \* where main is
    searchIdx,      \* the search of the for loop
    searchDone,     \* batched main: the while loop's flag
    existingISBNs,  \* the dedup index
    scraper,        \* locals of the running scrapeAllListings
    batchNew,       \* batched main: rows saved by this batch
    eval,           \* locals of the running evaluatePendingBooks
    lastPage,       \* history: the last page processed
    lastWrite,      \* history: the last updateBookEvaluation call
    lastLookup,     \* history: the last getProductByIsbn call
    lastCrawl,      \* history: how the last crawl of this run ended
    insertErrors,   \* history: isbns whose insert failed with another error than 23505
    log             \* history: what this run called, in the order of the calls

vars ==
    <<orch, upstream, catalog, checkpoint, now, run, faults, pc, searchIdx,
      searchDone, existingISBNs, scraper, batchNew, eval, lastPage, lastWrite,
      lastLookup, lastCrawl, insertErrors, log>>

\* ------------------------------------------------------------------------
\* supabase.ts: the store accessors
\* ------------------------------------------------------------------------
\* .range(from, from + pageSize - 1) of a result list
Range(rows, from) ==
    IF from >= Len(rows) THEN <<>>
    ELSE SubSeq(rows, from + 1, Min(from + StorePageSize, Len(rows)))

\* the while loop of getExistingISBNs; failAt is the request the store
\* answers with an error (0: none)
RECURSIVE ExistingLoop(_, _, _, _, _)
ExistingLoop(table, from, isbns, request, failAt) ==
    LET data == Range(table, from)
    IN  IF request = failAt THEN isbns
        ELSE IF Len(data) = 0 THEN isbns
        ELSE IF Len(data) < StorePageSize
             THEN isbns \cup Isbns(data)
             ELSE ExistingLoop(table, from + StorePageSize, isbns \cup Isbns(data),
                               request + 1, failAt)

getExistingISBNs(table, failAt) == ExistingLoop(table, 0, {}, 1, failAt)

\* the requests getExistingISBNs or getPendingBooks makes for a list of this
\* length when none fails
Requests(n) == (n \div StorePageSize) + 1

\* the row insert(book) stores
RowOf(book) == NewRow(book.isbn, book.seller, book.price, book.shipping, book.scraped_at)

\* insertBooks: one insert per book, in order.  errs holds the positions
\* whose insert the store answers with another error than 23505; an insert
\* of an isbn the table holds is answered with 23505 (unique violation).
\* The table afterwards and the three counters.
RECURSIVE InsertLoop(_, _, _, _)
InsertLoop(acc, books, j, errs) ==
    IF j > Len(books) THEN acc
    ELSE IF j \in errs
         THEN InsertLoop([acc EXCEPT !.errors = @ + 1], books, j + 1, errs)
         ELSE IF books[j].isbn \in Isbns(acc.table)
         THEN InsertLoop([acc EXCEPT !.duplicates = @ + 1], books, j + 1, errs)
         ELSE InsertLoop([acc EXCEPT !.saved = @ + 1,
                              !.table = Append(@, RowOf(books[j]))],
                         books, j + 1, errs)

\* faulty variant: every book is stored, the unique key is not enforced
insertBooksIgnoringUnique(table, books, errs) ==
    [table |-> table \o [j \in 1..Len(books) |-> RowOf(books[j])],
     saved |-> Len(books), duplicates |-> 0, errors |-> 0]

\* faulty variant: an insert answered with 23505 is counted as saved
insertBooksCountingDuplicates(table, books, errs) ==
    LET done == InsertLoop([table |-> table, saved |-> 0, duplicates |-> 0, errors |-> 0],
                           books, 1, errs)
    IN  [done EXCEPT !.saved = @ + done.duplicates, !.duplicates = 0]

\* faulty variant: the loop is left at the first insert that is refused
RECURSIVE InsertLoopStopping(_, _, _, _)
InsertLoopStopping(acc, books, j, errs) ==
    IF j > Len(books) THEN acc
    ELSE IF j \in errs THEN [acc EXCEPT !.errors = @ + 1]
    ELSE IF books[j].isbn \in Isbns(acc.table) THEN [acc EXCEPT !.duplicates = @ + 1]
    ELSE InsertLoopStopping([acc EXCEPT !.saved = @ + 1,
                                 !.table = Append(@, RowOf(books[j]))],
                            books, j + 1, errs)
insertBooksStoppingAtError(table, books, errs) ==
    InsertLoopStopping([table |-> table, saved |-> 0, duplicates |-> 0, errors |-> 0],
                       books, 1, errs)

insertBooks(table, books, errs) ==
    InsertLoop([table |-> table, saved |-> 0, duplicates |-> 0, errors |-> 0],
               books, 1, errs)

\* .order('scraped_at', { ascending: true }): insertion sort
RECURSIVE InsertSorted(_, _)
InsertSorted(sorted, row) ==
    IF Len(sorted) = 0 THEN <<row>>
    ELSE IF row.scraped_at < Head(sorted).scraped_at THEN <<row>> \o sorted
    ELSE <<Head(sorted)>> \o InsertSorted(Tail(sorted), row)

\* faulty variant: the rows come in the order of the table
OrderAsStored(rows) == rows

RECURSIVE OrderByScrapedAt(_)
OrderByScrapedAt(rows) ==
    IF Len(rows) = 0 THEN <<>>
    ELSE InsertSorted(OrderByScrapedAt(SubSeq(rows, 1, Len(rows) - 1)), rows[Len(rows)])

\* .is('decision', null) and, with a seller, .eq('seller', seller);
\* seller is NoSeller when the argument is omitted
NoSeller == ""

\* faulty variant: the filter on decision is missing
PendingFilterAll(table, seller) ==
    SelectSeq(table, LAMBDA r : seller = NoSeller \/ r.seller = seller)

PendingFilter(table, seller) ==
    SelectSeq(table, LAMBDA r : r.decision = Null /\ (seller = NoSeller \/ r.seller = seller))

\* the while loop of getPendingBooks
RECURSIVE PendingLoop(_, _, _, _, _)
PendingLoop(rows, from, allPending, request, failAt) ==
    LET data == Range(rows, from)
    IN  IF request = failAt THEN allPending
        ELSE IF Len(data) = 0 THEN allPending
        ELSE IF Len(data) < StorePageSize
             THEN allPending \o data
             ELSE PendingLoop(rows, from + StorePageSize, allPending \o data,
                              request + 1, failAt)

getPendingBooks(table, seller, failAt) ==
    PendingLoop(OrderByScrapedAt(PendingFilter(table, seller)), 0, <<>>, 1, failAt)

\* getCheckpoint: 0 on an error and when there is no row (.single())
NoCheckpoint == -1

getCheckpoint(cp, search, dbError) ==
    IF dbError \/ cp[search] = NoCheckpoint THEN 0 ELSE cp[search]

\* faulty variant: an insert instead of an upsert, refused when the row exists
saveCheckpointInsertOnly(cp, search, offset, dbError) ==
    IF dbError \/ cp[search] # NoCheckpoint THEN cp ELSE [cp EXCEPT ![search] = offset]

\* faulty variant: the offset stored is one page ahead
saveCheckpointSkippingPage(cp, search, offset, dbError) ==
    IF dbError THEN cp ELSE [cp EXCEPT ![search] = offset + PageSize]

\* saveCheckpoint: an upsert of last_offset; an error is logged only
saveCheckpoint(cp, search, offset, dbError) ==
    IF dbError THEN cp ELSE [cp EXCEPT ![search] = offset]

\* resetCheckpoint: an upsert of last_offset 0; an error is logged only
resetCheckpoint(cp, search, dbError) ==
    IF dbError THEN cp ELSE [cp EXCEPT ![search] = 0]

\* ------------------------------------------------------------------------
\* ebayApi.ts (from spec.md 4.1): one page of scrapeAllListings
\* ------------------------------------------------------------------------
ScrapedBook(listing, seller, scrapedAt) ==
    [isbn |-> listing.isbn, seller |-> seller, price |-> listing.price,
     shipping |-> listing.shipping, scraped_at |-> scrapedAt]

\* the listings of a page that go to the insert callback: those with a
\* catalog key the dedup index does not hold; a key counts as seen from the
\* moment it is met, before its insert is attempted
RECURSIVE FilterLoop(_, _, _, _, _)
FilterLoop(acc, page, j, seller, time) ==
    IF j > Len(page) THEN acc
    ELSE IF page[j].isbn = NoIsbn
         THEN FilterLoop([acc EXCEPT !.noKey = @ + 1], page, j + 1, seller, time)
         ELSE IF page[j].isbn \in acc.index
         THEN FilterLoop([acc EXCEPT !.known = @ + 1], page, j + 1, seller, time)
         ELSE FilterLoop([acc EXCEPT !.index = @ \cup {page[j].isbn},
                              !.books = Append(@, ScrapedBook(page[j], seller, time + j))],
                         page, j + 1, seller, time)

\* faulty variant: the dedup index is not consulted
FilterPageKeepingKnown(page, index, seller, time) ==
    [index |-> index \cup ({page[j].isbn : j \in 1..Len(page)} \ {NoIsbn}),
     books |-> [j \in 1..Len(page) |-> ScrapedBook(page[j], seller, time + j)],
     noKey |-> 0, known |-> 0]

FilterPage(page, index, seller, time) ==
    FilterLoop([index |-> index, books |-> <<>>, noKey |-> 0, known |-> 0],
               page, 1, seller, time)

\* ------------------------------------------------------------------------
\* keepaApi.ts (from spec.md 4.3 and 6): the valuation service and the engine
\* ------------------------------------------------------------------------
\* what the valuation service holds for a catalog key; Null is "not found"
KeepaData(isbn) ==
    CASE isbn = "k1" ->
           [asin |-> Str("B001"), price |-> 4000, rank |-> Num(1200, 1, 2),
            drops |-> Int0(14), fbaFee |-> 900, fbmFee |-> 700,
            weightLbs |-> Num(1, 1, 4), amazonFlag |-> Null, binding |-> Str("Paperback")]
      [] isbn = "k3" ->
           [asin |-> Null, price |-> 2000000050, rank |-> Null,
            drops |-> NaN, fbaFee |-> 900, fbmFee |-> 700,
            weightLbs |-> Null, amazonFlag |-> Str("AMZ"), binding |-> Null]
      [] OTHER -> Null

MinMarginCents == 300
MinRatio == 2

Dollars(cents) == Num(cents \div 100, cents % 100, 100)
Cents(dollars) == dollars.i * 100 + dollars.n

\* evaluateBook(raw, buyPriceDollars)
evaluateBook(raw, buyPrice) ==
    LET buy == Cents(buyPrice)
        fba == raw.price - raw.fbaFee - buy
        fbm == raw.price - raw.fbmFee - buy
        decision ==
            IF fba <= 0 \/ fbm <= 0 \/ IsNullish(raw.rank) THEN "REJECT"
            ELSE IF fba >= MinMarginCents /\ fbm >= MinMarginCents
                    /\ raw.price >= MinRatio * buy THEN "BUY"
            ELSE "REVIEW"
    IN  [decision |-> Str(decision), asin |-> raw.asin,
         amazonPrice |-> Dollars(raw.price), salesRank |-> raw.rank,
         salesRankDrops90 |-> raw.drops, fbaProfit |-> Dollars(fba),
         fbmProfit |-> Dollars(fbm), amazonFlag |-> raw.amazonFlag,
         binding |-> raw.binding, weightLbs |-> raw.weightLbs]

\* ------------------------------------------------------------------------
\* Initial state
\* ------------------------------------------------------------------------
StartTime == 10

PendingRow == NewRow("k1", SELLER, 1000, 300, 2)
ForeignRow == NewRow("k9", OtherSeller, 100, 0, 5)
BoughtRow ==
    [NewRow("k2", SELLER, 500, 0, 1) EXCEPT
        !.decision = Str("BOUGHT"), !.evaluated_at = 3, !.asin = Str("B002"),
        !.amazon_price = Int0(1500), !.sales_rank = Int0(77)]

\* what the catalog may hold when the first run starts
InitialCatalogs ==
    {<<>>, <<ForeignRow, PendingRow>>, <<BoughtRow>>, <<BoughtRow, PendingRow>>}

IdleScraper ==
    [offset |-> 0, totalScraped |-> 0, totalWithISBN |-> 0, totalNew |-> 0,
     completed |-> FALSE, atStart |-> NoCheckpoint, passed |-> NoCheckpoint,
     stored |-> NoCheckpoint]

IdleEval ==
    [pending |-> <<>>, idx |-> 0, evaluated |-> 0, buy |-> 0, review |-> 0,
     reject |-> 0, noData |-> 0]

NoPage ==
    [n |-> 0, search |-> 0, offset |-> 0, page |-> <<>>, indexBefore |-> {},
     books |-> <<>>, errs |-> {}, before |-> <<>>, noKey |-> 0, known |-> 0,
     saved |-> 0, duplicates |-> 0, errors |-> 0]
NoWrite == [n |-> 0, isbn |-> NoIsbn, evaluation |-> NoDataEvaluation, ok |-> FALSE,
            before |-> <<>>, path |-> "none", result |-> Null]
NoLookup == [n |-> 0, isbn |-> NoIsbn, stored |-> Null, found |-> FALSE]
NoPending == [n |-> 0, table |-> <<>>, seller |-> NoSeller, list |-> <<>>, failAt |-> 0]
\* the calls of one evaluatePendingBooks pass: the rate limiter, the
\* lookup, the delay
Event(e, isbn) == [e |-> e, isbn |-> isbn]
\* pending: the last getPendingBooks call; events: the calls of the current
\* pass; threw: the searches whose crawl threw in this run; resumed: the
\* batched main goes or has gone round the while loop of the current search;
\* missing: the keys of the search not in the table when its crawl started
NoLog == [pending |-> NoPending, events |-> <<>>, threw |-> {}, resumed |-> FALSE,
          missing |-> 0]
NoCrawl == [search |-> 0, ended |-> "none", reset |-> "none", atStart |-> NoCheckpoint,
            passed |-> NoCheckpoint, stored |-> NoCheckpoint]

\* how a call of scrapeAllListings ended, with the offsets its
\* checkpoint-save callback was given
Ended(search, how, reset, scr) ==
    [search |-> search, ended |-> how, reset |-> reset, atStart |-> scr.atStart,
     passed |-> scr.passed, stored |-> scr.stored]

\* main's first call: evaluatePendingBooks() in the per-seller main,
\* getExistingISBNs() in the batched one
FirstPc(o) == IF o = "perSeller" THEN "evaluate" ELSE "loadIndex"

Init ==
    /\ orch \in {"perSeller", "batched"}
    /\ \E first \in UpstreamChoices :
           upstream = [s \in 1..NumSearches |-> IF s = 1 THEN first ELSE SecondUpstream]
    /\ catalog \in InitialCatalogs
    /\ checkpoint = [s \in 1..NumSearches |-> NoCheckpoint]
    /\ now = StartTime
    /\ run = 1
    /\ faults = 0
    /\ pc = FirstPc(orch)
    /\ searchIdx = 1
    /\ searchDone = FALSE
    /\ existingISBNs = {}
    /\ scraper = IdleScraper
    /\ batchNew = 0
    /\ eval = IdleEval
    /\ lastPage = NoPage
    /\ lastWrite = NoWrite
    /\ lastLookup = NoLookup
    /\ lastCrawl = NoCrawl
    /\ insertErrors = {}
    /\ log = NoLog

store == <<catalog, checkpoint>>
config == <<orch, upstream>>
history == <<lastPage, lastWrite, lastLookup, lastCrawl, insertErrors>>

\* ------------------------------------------------------------------------
\* index.ts: the two mains (lines 7-75 per seller, lines 83-167 batched).
\* The totals main only prints (totalNew, totalSkipped, totalEval) are left
\* out; nothing reads them.
\* ------------------------------------------------------------------------
\* where main goes when the body of its search loop is left: the next
\* search, or the summary
NextPc(idx) == IF idx < NumSearches THEN "getCheckpoint" ELSE "done"
NextIdx(idx) == IF idx < NumSearches THEN idx + 1 ELSE idx

\* where main goes when evaluatePendingBooks returns: the per-seller main
\* loads the dedup index, the batched main tests while (!searchDone).
\* ReturnPcLeaving is the faulty variant that does not go round the loop.
ReturnPcLeaving(o, done, idx) ==
    IF o = "perSeller" THEN "loadIndex" ELSE NextPc(idx)
ReturnPc(o, done, idx) ==
    IF o = "perSeller" THEN "loadIndex"
    ELSE IF done THEN NextPc(idx) ELSE "getCheckpoint"
ReturnIdx(o, done, idx) ==
    IF o = "batched" /\ done THEN NextIdx(idx) ELSE idx

\* the catch of the search's try: the error is logged; the per-seller main
\* falls through to the next search of the for loop, the batched main sets
\* searchDone, which ends the while loop of the search
CatchRetrying(o, idx) ==
    IF o = "batched" THEN [pc |-> "getCheckpoint", idx |-> idx]
    ELSE [pc |-> NextPc(idx), idx |-> NextIdx(idx)]
Catch(o, idx) == [pc |-> NextPc(idx), idx |-> NextIdx(idx)]

\* the keys of a search's result set that are in no row of the table
Missing(items, table) ==
    Cardinality(({items[j].isbn : j \in 1..Len(items)} \ {NoIsbn}) \ Isbns(table))

\* const existingISBNs = await getExistingISBNs()
LoadIndex ==
    /\ pc = "loadIndex"
    /\ \E failAt \in 0..Requests(Len(catalog)) :
           /\ faults + (IF failAt = 0 THEN 0 ELSE 1) <= MaxFaults
           /\ faults' = faults + (IF failAt = 0 THEN 0 ELSE 1)
           /\ existingISBNs' = getExistingISBNs(catalog, failAt)
    /\ pc' = "getCheckpoint"
    /\ searchIdx' = 1
    /\ searchDone' = FALSE
    /\ UNCHANGED <<config, store, now, run, scraper, batchNew, eval, history, log>>

\* const startOffset = await getCheckpoint(...), then the call of
\* scrapeAllListings up to its first page fetch
GetCheckpoint ==
    /\ pc = "getCheckpoint"
    /\ \E dbError \in BOOLEAN :
           /\ faults + (IF dbError THEN 1 ELSE 0) <= MaxFaults
           /\ faults' = faults + (IF dbError THEN 1 ELSE 0)
           /\ scraper' = [IdleScraper EXCEPT
                             !.offset = getCheckpoint(checkpoint, searchIdx, dbError),
                             !.atStart = checkpoint[searchIdx]]
    /\ batchNew' = 0
    /\ lastCrawl' = NoCrawl
    /\ log' = [log EXCEPT !.missing = Missing(upstream[searchIdx], catalog)]
    /\ pc' = "scrape"
    /\ UNCHANGED <<config, store, now, run, searchIdx, searchDone, existingISBNs,
                   eval, lastPage, lastWrite, lastLookup, insertErrors>>

Cost(b) == IF b THEN 1 ELSE 0

\* the page fetch of scrapeAllListings throws: the catch of the search's
\* try logs it; the per-seller main goes on with the next search, the
\* batched main sets searchDone and leaves the while loop
ScrapeThrows ==
    /\ pc = "scrape"
    /\ faults < MaxFaults
    /\ faults' = faults + 1
    /\ lastCrawl' = Ended(searchIdx, "thrown", "none", scraper)
    /\ pc' = Catch(orch, searchIdx).pc
    /\ searchIdx' = Catch(orch, searchIdx).idx
    /\ searchDone' = FALSE
    /\ log' = [log EXCEPT !.threw = @ \cup {searchIdx},
                          !.resumed = searchIdx' = searchIdx /\ pc' # "done"]
    /\ UNCHANGED <<config, store, now, run, existingISBNs, scraper, batchNew, eval,
                   lastPage, lastWrite, lastLookup, insertErrors>>

\* one page of scrapeAllListings: fetch, dedup filter, the insert callback
\* (insertBooks and the counters of main), the checkpoint-save callback with
\* the next offset, then the test for the end of the result set and for the
\* new-item threshold (given by the batched main only)
ScrapePage ==
    /\ pc = "scrape"
    /\ LET page == FetchPage(upstream[searchIdx], scraper.offset)
           filtered == FilterPage(page, existingISBNs, SELLER, now)
           nextOffset == scraper.offset + PageSize
           completed == Len(page) < PageSize
           totalNew == scraper.totalNew + Len(filtered.books)
           stop == orch = "batched" /\ totalNew >= EVAL_BATCH_SIZE
       IN  \E errs \in SUBSET (1..Len(filtered.books)), saveError \in BOOLEAN :
               LET inserted == insertBooks(catalog, filtered.books, errs)
               IN  /\ faults + Cardinality(errs) + Cost(saveError) <= MaxFaults
                   /\ faults' = faults + Cardinality(errs) + Cost(saveError)
                   /\ existingISBNs' = filtered.index
                   /\ catalog' = inserted.table
                   /\ batchNew' = batchNew + inserted.saved
                   /\ checkpoint' = saveCheckpoint(checkpoint, searchIdx, nextOffset, saveError)
                   /\ scraper' = [scraper EXCEPT
                                     !.offset = nextOffset,
                                     !.totalScraped = @ + Len(page),
                                     !.totalWithISBN = @ + Len(page) - filtered.noKey,
                                     !.totalNew = totalNew,
                                     !.completed = completed,
                                     !.passed = nextOffset,
                                     !.stored = IF saveError THEN @ ELSE nextOffset]
                   /\ lastPage' = [n |-> lastPage.n + 1, search |-> searchIdx,
                                   offset |-> scraper.offset, page |-> page,
                                   indexBefore |-> existingISBNs, books |-> filtered.books,
                                   errs |-> errs, before |-> catalog,
                                   noKey |-> filtered.noKey, known |-> filtered.known,
                                   saved |-> inserted.saved,
                                   duplicates |-> inserted.duplicates,
                                   errors |-> inserted.errors]
                   /\ insertErrors' = insertErrors \cup {filtered.books[j].isbn : j \in errs}
                   /\ now' = now + Len(page)
                   /\ pc' = IF completed \/ stop THEN "scraped" ELSE "scrape"
    /\ UNCHANGED <<config, run, searchIdx, searchDone, eval, lastWrite, lastLookup,
                   lastCrawl, log>>

\* per-seller main, after scrapeAllListings returned: the checkpoint is
\* reset when the crawl completed, then the next search
AfterScrapePerSeller ==
    /\ pc = "scraped"
    /\ orch = "perSeller"
    /\ \E dbError \in BOOLEAN :
           /\ dbError => scraper.completed
           /\ faults + Cost(dbError) <= MaxFaults
           /\ faults' = faults + Cost(dbError)
           /\ checkpoint' = IF scraper.completed
                            THEN resetCheckpoint(checkpoint, searchIdx, dbError)
                            ELSE checkpoint
           /\ lastCrawl' = Ended(searchIdx,
                                  IF scraper.completed THEN "completed" ELSE "stopped",
                                  IF ~scraper.completed THEN "none"
                                  ELSE IF dbError THEN "failed" ELSE "ok",
                                  scraper)
    /\ pc' = NextPc(searchIdx)
    /\ searchIdx' = NextIdx(searchIdx)
    /\ UNCHANGED <<config, catalog, now, run, searchDone, existingISBNs, scraper,
                   batchNew, eval, lastPage, lastWrite, lastLookup, insertErrors, log>>

\* batched main, after scrapeAllListings returned: searchDone when the crawl
\* completed; an evaluation pass when the batch saved a row, searchDone
\* otherwise
AfterScrapeBatched ==
    /\ pc = "scraped"
    /\ orch = "batched"
    /\ lastCrawl' = Ended(searchIdx,
                           IF scraper.completed THEN "completed" ELSE "stopped",
                           "none", scraper)
    /\ IF batchNew > 0
       THEN /\ pc' = "evaluate"
            /\ searchDone' = scraper.completed
            /\ searchIdx' = searchIdx
       ELSE /\ pc' = NextPc(searchIdx)
            /\ searchDone' = FALSE
            /\ searchIdx' = NextIdx(searchIdx)
    /\ log' = [log EXCEPT !.resumed = batchNew > 0 /\ (@ \/ ~scraper.completed)]
    /\ UNCHANGED <<config, store, now, run, faults, existingISBNs, scraper, batchNew,
                   eval, lastPage, lastWrite, lastLookup, insertErrors>>

\* ------------------------------------------------------------------------
\* evaluate.ts: evaluatePendingBooks
\* ------------------------------------------------------------------------
\* the seller argument: none in the per-seller main, SELLER in the batched
EvalSeller(o) == IF o = "batched" THEN SELLER ELSE NoSeller

\* lines 16-27: the pending list is read and the counters start at 0; with
\* an empty list the loop is skipped and the function returns
EvaluateBegin ==
    /\ pc = "evaluate"
    /\ \E failAt \in 0..Requests(Len(PendingFilter(catalog, EvalSeller(orch)))) :
           LET pending == getPendingBooks(catalog, EvalSeller(orch), failAt)
           IN  /\ faults + Cost(failAt # 0) <= MaxFaults
               /\ faults' = faults + Cost(failAt # 0)
               /\ eval' = [IdleEval EXCEPT !.pending = pending, !.idx = 1]
               /\ IF Len(pending) > 0
                  THEN /\ pc' = "evalTokens0"
                       /\ UNCHANGED <<searchIdx, searchDone>>
                  ELSE /\ pc' = ReturnPc(orch, searchDone, searchIdx)
                       /\ searchIdx' = ReturnIdx(orch, searchDone, searchIdx)
                       /\ searchDone' = FALSE
               /\ log' = [log EXCEPT
                             !.pending = [n |-> @.n + 1, table |-> catalog,
                                          seller |-> EvalSeller(orch), list |-> pending,
                                          failAt |-> failAt],
                             !.events = <<>>,
                             !.resumed = @ /\ (Len(pending) > 0 \/ ~searchDone)]
    /\ UNCHANGED <<config, store, now, run, existingISBNs, scraper, batchNew, history>>

\* line 20: waitForKeepaTokens() before the loop
WaitForTokensFirst ==
    /\ pc = "evalTokens0"
    /\ pc' = "evalTokens"
    /\ log' = [log EXCEPT !.events = Append(@, Event("acquire", NoIsbn))]
    /\ UNCHANGED <<config, store, now, run, faults, searchIdx, searchDone,
                   existingISBNs, scraper, batchNew, eval, history>>

\* line 30: waitForKeepaTokens() of the iteration
WaitForTokensSkipped ==
    /\ pc = "evalTokens"
    /\ pc' = "evalLookup"
    /\ UNCHANGED <<config, store, now, run, faults, searchIdx, searchDone,
                   existingISBNs, scraper, batchNew, eval, history, log>>
WaitForTokens ==
    /\ pc = "evalTokens"
    /\ pc' = "evalLookup"
    /\ log' = [log EXCEPT !.events = Append(@, Event("acquire", NoIsbn))]
    /\ UNCHANGED <<config, store, now, run, faults, searchIdx, searchDone,
                   existingISBNs, scraper, batchNew, eval, history>>

\* lines 37-38 and 77-81: the counters of the pass
CountedRejectingNoData(ev, raw, decision) ==
    IF raw = Null
    THEN [ev EXCEPT !.noData = @ + 1, !.reject = @ + 1, !.evaluated = @ + 1]
    ELSE [ev EXCEPT
             !.buy = @ + Cost(decision = Str("BUY")),
             !.review = @ + Cost(decision = Str("REVIEW")),
             !.reject = @ + Cost(decision \notin {Str("BUY"), Str("REVIEW")}),
             !.evaluated = @ + 1]
Counted(ev, raw, decision) ==
    IF raw = Null
    THEN [ev EXCEPT !.noData = @ + 1, !.evaluated = @ + 1]
    ELSE [ev EXCEPT
             !.buy = @ + Cost(decision = Str("BUY")),
             !.review = @ + Cost(decision = Str("REVIEW")),
             !.reject = @ + Cost(decision \notin {Str("BUY"), Str("REVIEW")}),
             !.evaluated = @ + 1]

StoredDecision(table, isbn) ==
    IF \E j \in 1..Len(table) : table[j].isbn = isbn
    THEN (CHOOSE r \in {table[j] : j \in 1..Len(table)} : r.isbn = isbn).decision
    ELSE Null

\* lines 31-39 and 44-82: the lookup, the write of the evaluation and the
\* counters, up to the sleep.  A lookup that fails yields no data.
LookupAndWrite ==
    /\ pc = "evalLookup"
    /\ LET book == eval.pending[eval.idx]
           data == KeepaData(book.isbn)
       IN  \E lookupFails \in BOOLEAN, dbError \in BOOLEAN :
               LET raw == IF lookupFails THEN Null ELSE data
                   result == evaluateBook(raw, Dollars(book.price + book.shipping))
                   evaluation == IF raw = Null THEN NoDataEvaluation ELSE EvaluationOf(result)
                   written == updateBookEvaluation(catalog, book.isbn, evaluation, now, dbError)
               IN  /\ lookupFails => data # Null
                   /\ faults + Cost(lookupFails) + Cost(dbError) <= MaxFaults
                   /\ faults' = faults + Cost(lookupFails) + Cost(dbError)
                   /\ catalog' = written.table
                   /\ eval' = Counted(eval, raw, result.decision)
                   /\ log' = [log EXCEPT !.events = Append(@, Event("lookup", book.isbn))]
                   /\ lastLookup' = [n |-> lastLookup.n + 1, isbn |-> book.isbn,
                                     stored |-> StoredDecision(catalog, book.isbn),
                                     found |-> raw # Null]
                   /\ lastWrite' = [n |-> lastWrite.n + 1, isbn |-> book.isbn,
                                    evaluation |-> evaluation, ok |-> written.ok,
                                    before |-> catalog,
                                    path |-> IF raw = Null THEN "noData" ELSE "evaluated",
                                    result |-> IF raw = Null THEN Null ELSE result]
    /\ now' = now + 1
    /\ pc' = "evalSleep"
    /\ UNCHANGED <<config, checkpoint, run, searchIdx, searchDone, existingISBNs,
                   scraper, batchNew, lastPage, lastCrawl, insertErrors>>

\* lines 40 and 84: sleep(KEEPA_DELAY_MS), then the next book, or the return
SleepDelayNotAfterNoData ==
    /\ pc = "evalSleep"
    /\ eval' = [eval EXCEPT !.idx = @ + 1]
    /\ IF eval.idx < Len(eval.pending)
       THEN /\ pc' = "evalTokens"
            /\ UNCHANGED <<searchIdx, searchDone>>
       ELSE /\ pc' = ReturnPc(orch, searchDone, searchIdx)
            /\ searchIdx' = ReturnIdx(orch, searchDone, searchIdx)
            /\ searchDone' = FALSE
    /\ log' = [log EXCEPT !.events = IF lastWrite.path = "noData" THEN @
                                      ELSE Append(@, Event("sleep", NoIsbn)),
                          !.resumed = @ /\ (eval.idx < Len(eval.pending) \/ ~searchDone)]
    /\ UNCHANGED <<config, store, now, run, faults, existingISBNs, scraper, batchNew,
                   history>>
SleepDelay ==
    /\ pc = "evalSleep"
    /\ eval' = [eval EXCEPT !.idx = @ + 1]
    /\ log' = [log EXCEPT !.events = Append(@, Event("sleep", NoIsbn)),
                          !.resumed = @ /\ (eval.idx < Len(eval.pending) \/ ~searchDone)]
    /\ IF eval.idx < Len(eval.pending)
       THEN /\ pc' = "evalTokens"
            /\ UNCHANGED <<searchIdx, searchDone>>
       ELSE /\ pc' = ReturnPc(orch, searchDone, searchIdx)
            /\ searchIdx' = ReturnIdx(orch, searchDone, searchIdx)
            /\ searchDone' = FALSE
    /\ UNCHANGED <<config, store, now, run, faults, existingISBNs, scraper, batchNew,
                   history>>

\* the process ends, normally or not, and the next run starts: the store
\* is kept, everything local to the process is new
NewRun ==
    /\ run < MaxRuns
    /\ run' = run + 1
    /\ pc' = FirstPc(orch)
    /\ searchIdx' = 1
    /\ searchDone' = FALSE
    /\ existingISBNs' = {}
    /\ scraper' = IdleScraper
    /\ batchNew' = 0
    /\ eval' = IdleEval
    /\ lastPage' = NoPage
    /\ lastWrite' = NoWrite
    /\ lastLookup' = NoLookup
    /\ lastCrawl' = NoCrawl
    /\ log' = NoLog
    /\ UNCHANGED <<config, store, now, faults, insertErrors>>

Next ==
    \/ LoadIndex
    \/ GetCheckpoint
    \/ ScrapeThrows
    \/ ScrapePage
    \/ AfterScrapePerSeller
    \/ AfterScrapeBatched
    \/ EvaluateBegin
    \/ WaitForTokensFirst
    \/ WaitForTokens
    \/ LookupAndWrite
    \/ SleepDelay
    \/ NewRun

Spec == Init /\ [][Next]_vars

\* one run of the batched main, from its start to the summary.  The run is
\* a sequence of awaited calls, each of which returns or throws, so it takes
\* its next step as long as it has one: weak fairness of its steps.  The
\* lookup step is enabled exactly when pc = "evalLookup" and leaves that
\* place, so its weak fairness is that main is not at the lookup for ever.
InitBatched == Init /\ orch = "batched"

StepsButLookup ==
    \/ LoadIndex
    \/ GetCheckpoint
    \/ ScrapeThrows
    \/ ScrapePage
    \/ AfterScrapeBatched
    \/ EvaluateBegin
    \/ WaitForTokensFirst
    \/ WaitForTokens
    \/ SleepDelay

NextBatched ==
    \/ LoadIndex
    \/ GetCheckpoint
    \/ ScrapeThrows
    \/ ScrapePage
    \/ AfterScrapeBatched
    \/ EvaluateBegin
    \/ WaitForTokensFirst
    \/ WaitForTokens
    \/ LookupAndWrite
    \/ SleepDelay

SpecBatched ==
    /\ InitBatched
    /\ [][NextBatched]_vars
    /\ WF_vars(StepsButLookup)
    /\ []<>(pc # "evalLookup")

TypeOK ==
    /\ pc \in {"evaluate", "evalTokens0", "evalTokens", "evalLookup", "evalSleep",
               "loadIndex", "getCheckpoint", "scrape", "scraped", "done"}
    /\ searchIdx \in 1..NumSearches
    /\ faults \in 0..MaxFaults
    /\ run \in 1..MaxRuns

\* ------------------------------------------------------------------------
\* insertBooks on its own: batches of up to MaxBooks books, some with an
\* isbn the table holds or with the isbn of another book of the batch
\* ------------------------------------------------------------------------
MaxBooks == 3

SampleBooks ==
    {ScrapedBook(L1, SELLER, 20), ScrapedBook(L2, SELLER, 21), ScrapedBook(L3, SELLER, 22)}

RECURSIVE Batches(_)
Batches(n) ==
    IF n = 0 THEN {<<>>}
    ELSE Batches(n - 1) \cup
         {Append(b, book) : b \in {c \in Batches(n - 1) : Len(c) = n - 1},
                            book \in SampleBooks}

InitInsert ==
    /\ orch = "none"
    /\ upstream = [s \in 1..NumSearches |-> <<>>]
    /\ catalog \in InitialCatalogs
    /\ checkpoint = [s \in 1..NumSearches |-> NoCheckpoint]
    /\ now = StartTime
    /\ run = 1
    /\ faults = 0
    /\ pc = "insert"
    /\ searchIdx = 1
    /\ searchDone = FALSE
    /\ existingISBNs = {}
    /\ scraper = IdleScraper
    /\ batchNew = 0
    /\ eval = IdleEval
    /\ lastPage = NoPage
    /\ lastWrite = NoWrite
    /\ lastLookup = NoLookup
    /\ lastCrawl = NoCrawl
    /\ insertErrors = {}
    /\ log = NoLog

\* one call insertBooks(books)
ApplyInsert ==
    /\ pc = "insert"
    /\ lastPage.n = 0
    /\ \E books \in Batches(MaxBooks) : \E errs \in SUBSET (1..Len(books)) :
           LET inserted == insertBooks(catalog, books, errs)
           IN  /\ catalog' = inserted.table
               /\ lastPage' = [NoPage EXCEPT
                                  !.n = lastPage.n + 1, !.books = books, !.errs = errs,
                                  !.before = catalog, !.saved = inserted.saved,
                                  !.duplicates = inserted.duplicates,
                                  !.errors = inserted.errors]
               /\ insertErrors' = insertErrors \cup {books[j].isbn : j \in errs}
    /\ UNCHANGED <<config, checkpoint, now, run, faults, pc, searchIdx, searchDone,
                   existingISBNs, scraper, batchNew, eval, lastWrite, lastLookup,
                   lastCrawl, log>>

NextInsert == ApplyInsert

SpecInsert == InitInsert /\ [][NextInsert]_vars

\* ------------------------------------------------------------------------
\* The evaluation write on its own: updateBookEvaluation and lines 50-75 of
\* evaluate.ts applied to sample rows, evaluations and engine results
\* ------------------------------------------------------------------------
MaxWrites == 1

FilledRow ==
    [NewRow("k1", SELLER, 1000, 300, 2) EXCEPT
        !.decision = Str("REVIEW"), !.evaluated_at = 4, !.asin = Str("B001"),
        !.amazon_price = Int0(3999), !.sales_rank = Int0(1200),
        !.sales_rank_drops_90 = Int0(14), !.fba_profit = Int0(-120),
        !.fbm_profit = Int0(250), !.amazon_flag = Str("AMZ"),
        !.book_type = Str("Hardcover"), !.weight_oz = Num(20, 5, 10)]

SampleTables == {<<PendingRow, BoughtRow>>, <<BoughtRow, FilledRow>>, <<FilledRow>>}

SampleValue(f) ==
    IF f \in {"asin", "amazon_flag", "book_type"} THEN Str("x")
    ELSE IF f = "weight_oz" THEN Num(12, 3, 10)
    ELSE Int0(4200)

BareEvaluation ==
    [k \in EvalKeys |-> IF k = "decision" THEN Str("BUY") ELSE Undef]

SampleEvaluations ==
    {NoDataEvaluation,
     [k \in EvalKeys |-> IF k = "decision" THEN Str("REVIEW") ELSE SampleValue(k)]}
    \cup {[BareEvaluation EXCEPT ![f] = v] :
             f \in EvalFields, v \in {Null, Str("y"), Int0(7)}}

\* engine results: one field of a plain result replaced by an edge value
PlainResult ==
    [decision |-> Str("REVIEW"), asin |-> Str("B001"), amazonPrice |-> Dollars(3999),
     salesRank |-> Int0(1200), salesRankDrops90 |-> Int0(14),
     fbaProfit |-> Dollars(-120), fbmProfit |-> Dollars(250),
     amazonFlag |-> Null, binding |-> Str("Paperback"), weightLbs |-> Num(1, 1, 4)]

NonNumbers == {Undef, Null, NaN, PosInf, NegInf}

\* dollar amounts around the bound of +-2,000,000,000 cents
EdgeDollars ==
    NonNumbers \cup
    {Num(12, 345, 1000), Num(-1, 995, 1000), Num(20000000, 0, 1),
     Num(20000000, 1, 200), Num(19999999, 199, 200), Num(20000000, 1, 100),
     Num(-20000000, 0, 1), Num(-20000001, 199, 200), Num(-20000001, 99, 100)}

\* counts around the bound of +-2,000,000,000
EdgeCounts ==
    NonNumbers \cup
    {Num(1200, 1, 2), Num(-3, 1, 2), Int0(2000000000), Num(1999999999, 1, 2),
     Num(2000000000, 1, 2), Int0(2000000001), Int0(-2000000000),
     Num(-2000000001, 1, 2), Int0(-2000000001)}

SampleResults ==
    {[PlainResult EXCEPT ![f] = v] :
        f \in {"amazonPrice", "fbaProfit", "fbmProfit"}, v \in EdgeDollars}
    \cup {[PlainResult EXCEPT ![f] = v] :
        f \in {"salesRank", "salesRankDrops90"}, v \in EdgeCounts}
    \cup {[PlainResult EXCEPT !.amazonPrice = Num(20000000, 1, 200), !.asin = Null,
                              !.fbaProfit = NaN, !.weightLbs = PosInf,
                              !.decision = Str("REJECT")]}

InitWrite ==
    /\ orch = "none"
    /\ upstream = [s \in 1..NumSearches |-> <<>>]
    /\ catalog \in SampleTables
    /\ checkpoint = [s \in 1..NumSearches |-> NoCheckpoint]
    /\ now = StartTime
    /\ run = 1
    /\ faults = 0
    /\ pc = "write"
    /\ searchIdx = 1
    /\ searchDone = FALSE
    /\ existingISBNs = {}
    /\ scraper = IdleScraper
    /\ batchNew = 0
    /\ eval = IdleEval
    /\ lastPage = NoPage
    /\ lastWrite = NoWrite
    /\ lastLookup = NoLookup
    /\ lastCrawl = NoCrawl
    /\ insertErrors = {}
    /\ log = NoLog

WriteFrame ==
    UNCHANGED <<config, checkpoint, run, faults, pc, searchIdx, searchDone,
                existingISBNs, scraper, batchNew, eval, lastPage, lastLookup,
                lastCrawl, insertErrors, log>>

\* updateBookEvaluation(isbn, evaluation)
ApplyEvaluation ==
    /\ pc = "write"
    /\ lastWrite.n < MaxWrites
    /\ \E isbn \in {"k1", "k2", "k3"}, evaluation \in SampleEvaluations, dbError \in BOOLEAN :
           LET written == updateBookEvaluation(catalog, isbn, evaluation, now, dbError)
           IN  /\ catalog' = written.table
               /\ lastWrite' = [n |-> lastWrite.n + 1, isbn |-> isbn,
                                evaluation |-> evaluation, ok |-> written.ok,
                                before |-> catalog, path |-> "direct", result |-> Null]
    /\ now' = now + 1
    /\ WriteFrame

\* lines 50-75 of evaluate.ts: the engine's result is converted and written
PersistResult ==
    /\ pc = "write"
    /\ lastWrite.n < MaxWrites
    /\ \E isbn \in {"k1", "k2"}, result \in SampleResults, dbError \in BOOLEAN :
           LET evaluation == EvaluationOf(result)
               written == updateBookEvaluation(catalog, isbn, evaluation, now, dbError)
           IN  /\ catalog' = written.table
               /\ lastWrite' = [n |-> lastWrite.n + 1, isbn |-> isbn,
                                evaluation |-> evaluation, ok |-> written.ok,
                                before |-> catalog, path |-> "evaluated",
                                result |-> result]
    /\ now' = now + 1
    /\ WriteFrame

NextWrite == ApplyEvaluation \/ PersistResult

SpecWrite == InitWrite /\ [][NextWrite]_vars

\* ------------------------------------------------------------------------
\* Properties
\* ------------------------------------------------------------------------
\* main has left the search whose crawl lastCrawl describes
LeftSearch == pc = "done" \/ searchIdx > lastCrawl.search

\* C1: once a crawl returned completed = true and main has moved to the next
\* search, getCheckpoint for the crawled search yields 0, unless the reset's
\* store write failed; for both mains of index.ts.
C1_ResetOnCompletion ==
    (lastCrawl.ended = "completed" /\ lastCrawl.reset # "failed" /\ LeftSearch)
        => getCheckpoint(checkpoint, lastCrawl.search, FALSE) = 0

\* the step sets a stored checkpoint to 0 that was not 0
ZeroedBy(s) == checkpoint'[s] = 0 /\ checkpoint[s] # 0

\* a stored checkpoint becomes 0 only in the step that follows a crawl of
\* that search which returned completed = true
ZeroOnlyAfterCompleted ==
    \A s \in 1..NumSearches :
        ZeroedBy(s) => (pc = "scraped" /\ scraper.completed /\ searchIdx = s)

NotCompleted == lastCrawl.ended \in {"stopped", "thrown"}

\* C2 as stated: a checkpoint becomes 0 only after a completed crawl, and
\* after a crawl that ended otherwise the stored checkpoint is the last
\* offset given to the checkpoint-save callback.
C2_AsStated ==
    /\ [][ZeroOnlyAfterCompleted]_vars
    /\ [](NotCompleted /\ lastCrawl.passed # NoCheckpoint
            => checkpoint[lastCrawl.search] = lastCrawl.passed)

\* C2: a checkpoint becomes 0 only after a completed crawl, and after a
\* crawl that ended otherwise the stored checkpoint is the last offset whose
\* save succeeded, or the value from before the crawl when none did.
C2_LastSavedOffset ==
    /\ [][ZeroOnlyAfterCompleted]_vars
    /\ [](NotCompleted
            => checkpoint[lastCrawl.search] =
                  IF lastCrawl.stored # NoCheckpoint THEN lastCrawl.stored
                  ELSE lastCrawl.atStart)

\* a crawl stopped by the threshold after a checkpoint save that failed
C2_Witness ==
    /\ lastCrawl.ended = "stopped"
    /\ lastCrawl.stored # NoCheckpoint
    /\ lastCrawl.passed # lastCrawl.stored

\* the catalog keys an uninterrupted crawl from offset 0, with an empty
\* dedup index and no store error, leaves in an empty catalog table
RECURSIVE CrawlFromZero(_, _, _, _)
CrawlFromZero(items, offset, index, table) ==
    LET page == FetchPage(items, offset)
        filtered == FilterPage(page, index, SELLER, 0)
        inserted == insertBooks(table, filtered.books, {})
    IN  IF Len(page) < PageSize THEN Isbns(inserted.table)
        ELSE CrawlFromZero(items, offset + PageSize, filtered.index, inserted.table)

UninterruptedKeys(s) == CrawlFromZero(upstream[s], 0, {}, <<>>)

InitialKeys == UNION {Isbns(t) : t \in InitialCatalogs}

\* C3: when a crawl of a search has run to completion, whether in one piece
\* or resumed from saved checkpoints after interruptions, the catalog holds
\* every key an uninterrupted crawl from offset 0 stores, except keys whose
\* insert the store refused with an error, and no key from elsewhere.
C3_ResumeEquivalence ==
    /\ lastCrawl.ended = "completed"
         => UninterruptedKeys(lastCrawl.search) \ insertErrors \subseteq Isbns(catalog)
    /\ Isbns(catalog) \subseteq
         InitialKeys \cup UNION {UninterruptedKeys(s) : s \in 1..NumSearches}

\* a crawl resumed in a second run from a saved offset k > 0 completed and
\* stored a row after the resume
C3_Witness ==
    /\ lastCrawl.ended = "completed"
    /\ lastCrawl.atStart > 0
    /\ run > 1
    /\ lastPage.saved > 0
    /\ insertErrors = {}
    /\ UninterruptedKeys(lastCrawl.search) \subseteq Isbns(catalog)

\* C4: between successive checkpoint writes of one search in one run, the
\* stored offset never decreases, except for the reset to 0 after
\* completion; also over the iterations of the batched main's resume loop.
C4_MonotoneOffset ==
    [][\A s \in 1..NumSearches :
          (lastPage.n > 0 /\ lastPage.search = s /\ checkpoint'[s] < checkpoint[s])
              => (checkpoint'[s] = 0 /\ pc = "scraped" /\ scraper.completed)]_vars

Distinct(table) ==
    \A i, j \in 1..Len(table) : table[i].isbn = table[j].isbn => i = j

PassedKeys == {lastPage.books[j].isbn : j \in 1..Len(lastPage.books)}

\* C5 as stated: the rows inserted for a page are the page size minus the
\* already-known listings minus the 23505 conflicts.
C5_AsStated ==
    /\ PassedKeys \cap lastPage.indexBefore = {}
    /\ Distinct(catalog)
    /\ lastPage.saved = Len(lastPage.page) - lastPage.known - lastPage.duplicates

\* C5: no listing whose key the dedup index held goes to the insert
\* callback, no catalog key is stored twice, and the rows inserted for a
\* page are the page size minus the listings without a catalog key, minus
\* the already-known ones, minus the 23505 conflicts, minus the inserts
\* refused with another error.
C5_InsertedCount ==
    /\ PassedKeys \cap lastPage.indexBefore = {}
    /\ Distinct(catalog)
    /\ lastPage.saved = Len(lastPage.page) - lastPage.noKey - lastPage.known
                            - lastPage.duplicates - lastPage.errors

\* a page with an already-known listing and a newly stored one
C5_Witness ==
    /\ lastPage.n > 0
    /\ lastPage.known > 0
    /\ lastPage.saved > 0
    /\ Len(lastPage.page) = PageSize

\* the pass of evaluatePendingBooks has gone through its whole list
PassOver == Len(eval.pending) > 0 /\ eval.idx > Len(eval.pending)

\* C6: at the end of a pass every entry of the pending list has a stored
\* decision, and an entry without valuation data has REJECT once its
\* iteration is over.
C6_AllDecided ==
    /\ PassOver =>
         \A j \in 1..Len(eval.pending) :
             StoredDecision(catalog, eval.pending[j].isbn) # Null
    /\ (pc = "evalSleep" /\ lastWrite.path = "noData")
         => StoredDecision(catalog, lastWrite.isbn) = Str("REJECT")

RowsOf(table, isbn) == {j \in 1..Len(table) : table[j].isbn = isbn}

\* C7: on the no-data path the evaluation written holds decision REJECT and
\* nothing else; the write sets decision and evaluated_at of the entry and
\* leaves its nine evaluation columns as they were, unset.
C7_NoDataWrite ==
    lastWrite.path = "noData" =>
        /\ lastWrite.evaluation.decision = Str("REJECT")
        /\ \A f \in EvalFields : lastWrite.evaluation[f] = Undef
        /\ \A j \in RowsOf(lastWrite.before, lastWrite.isbn) :
              /\ \A f \in EvalFields :
                    catalog[j][f] = lastWrite.before[j][f] /\ catalog[j][f] = Null
              /\ lastWrite.ok =>
                    /\ catalog[j].decision = Str("REJECT")
                    /\ catalog[j].evaluated_at # NullTime
              /\ ~lastWrite.ok => catalog[j] = lastWrite.before[j]

\* a no-data write that succeeded
C7_Witness ==
    /\ lastWrite.path = "noData"
    /\ lastWrite.ok
    /\ \E j \in RowsOf(catalog, lastWrite.isbn) : catalog[j].decision = Str("REJECT")

\* the columns an evaluation names: those whose value is not undefined
Present(evaluation) == {f \in EvalKeys : evaluation[f] # Undef}

\* C8: a successful updateBookEvaluation sets, on the rows with the given
\* isbn, the columns present in the evaluation to the values given and
\* evaluated_at to the time of the call; every other column of these rows
\* and every other row is as before; a failed call returns false and leaves
\* the table as it was.
C8_WritesPresentFieldsOnly ==
    lastWrite.path = "direct" =>
        /\ Len(catalog) = Len(lastWrite.before)
        /\ ~lastWrite.ok => catalog = lastWrite.before
        /\ lastWrite.ok =>
             \A j \in 1..Len(catalog) :
                 IF lastWrite.before[j].isbn = lastWrite.isbn
                 THEN \A c \in DOMAIN catalog[j] :
                         catalog[j][c] =
                            IF c \in Present(lastWrite.evaluation)
                            THEN lastWrite.evaluation[c]
                            ELSE IF c = "evaluated_at" THEN now - 1
                            ELSE lastWrite.before[j][c]
                 ELSE catalog[j] = lastWrite.before[j]

\* a successful write to a row with a column set that the evaluation omits,
\* beside another row
C8_Witness ==
    /\ lastWrite.path = "direct"
    /\ lastWrite.ok
    /\ Len(catalog) > 1
    /\ \E j \in RowsOf(catalog, lastWrite.isbn) :
          /\ lastWrite.before[j].amazon_price # Null
          /\ lastWrite.evaluation.amazon_price = Undef
          /\ lastWrite.evaluation.asin # Undef
          /\ catalog[j].evaluated_at # lastWrite.before[j].evaluated_at

\* the value the engine computed for an integer column, and the factor that
\* takes it to the column's unit (dollars to cents)
Computed(result, f) ==
    CASE f = "amazon_price" -> result.amazonPrice
      [] f = "fba_profit" -> result.fbaProfit
      [] f = "fbm_profit" -> result.fbmProfit
      [] f = "sales_rank" -> result.salesRank
      [] f = "sales_rank_drops_90" -> result.salesRankDrops90
Factor(f) == IF f \in {"sales_rank", "sales_rank_drops_90"} THEN 1 ELSE 100

\* r is k * x rounded to the nearest integer, halves up:  r <= k*x + 1/2 < r + 1
RoundsTo(x, k, r) ==
    \E e \in 0..k :
        /\ r = k * x.i + e
        /\ 2 * x.d * e <= 2 * k * x.n + x.d
        /\ 2 * k * x.n + x.d < 2 * x.d * e + 2 * x.d

\* the rounded value of k * x lies in [-2,000,000,000, 2,000,000,000]
RoundsInRange(x, k) ==
    \E e \in 0..k :
        /\ 2 * x.d * e <= 2 * k * x.n + x.d
        /\ 2 * k * x.n + x.d < 2 * x.d * e + 2 * x.d
        /\ k * x.i + e <= 2000000000
        /\ k * x.i + e >= -2000000000

Persistable(x, k) == x.t = "num" /\ RoundsInRange(x, k)

\* C9: on the evaluated path each integer column is written exactly when its
\* computed value is present, finite and rounds into the range; the value
\* stored is the rounded one; a column that is dropped keeps its old value,
\* and the decision and the other columns are written all the same.
C9_SafeIntegers ==
    (lastWrite.path = "evaluated" /\ lastWrite.n > 0) =>
        /\ lastWrite.evaluation.decision = lastWrite.result.decision
        /\ \A f \in IntFields :
              LET x == Computed(lastWrite.result, f)
                  sent == lastWrite.evaluation[f]
              IN  /\ sent # Undef <=> Persistable(x, Factor(f))
                  /\ sent # Undef =>
                        sent.t = "num" /\ sent.n = 0 /\ RoundsTo(x, Factor(f), sent.i)
        /\ lastWrite.ok =>
             \A j \in RowsOf(lastWrite.before, lastWrite.isbn) :
                 /\ catalog[j].decision = lastWrite.result.decision
                 /\ \A f \in IntFields :
                       catalog[j][f] =
                          IF Persistable(Computed(lastWrite.result, f), Factor(f))
                          THEN lastWrite.evaluation[f]
                          ELSE lastWrite.before[j][f]

\* a write in which amazon_price, finite but out of range, is dropped while
\* the decision and fba_profit are stored
C9_Witness ==
    /\ lastWrite.path = "evaluated"
    /\ lastWrite.ok
    /\ lastWrite.result.amazonPrice.t = "num"
    /\ lastWrite.evaluation.amazon_price = Undef
    /\ \E j \in RowsOf(catalog, lastWrite.isbn) :
          /\ catalog[j].decision = lastWrite.result.decision
          /\ lastWrite.before[j].fba_profit = Null
          /\ catalog[j].fba_profit = Int0(-120)
          /\ catalog[j].amazon_price = lastWrite.before[j].amazon_price

\* C10: a lookup and an evaluation write are issued only for entries whose
\* stored decision is null, in every pass of every run; no step changes a
\* decision that is not null.
C10_DecidedUntouched ==
    /\ [](lastLookup.n > 0 => lastLookup.stored = Null)
    /\ [](lastWrite.n > 0 =>
            \A j \in RowsOf(lastWrite.before, lastWrite.isbn) :
                lastWrite.before[j].decision = Null)
    /\ [][\A j \in 1..Len(catalog) :
             catalog[j].decision # Null =>
                 (Len(catalog') >= j /\ catalog'[j].decision = catalog[j].decision)]_vars

\* a lookup in a second run, with decided entries in the catalog
C10_Witness ==
    /\ run > 1
    /\ lastLookup.n > 0
    /\ \E j \in 1..Len(catalog) :
          catalog[j].decision # Null /\ catalog[j].isbn # lastLookup.isbn

\* ------------------------------------------------------------------------
\* The pending queue and the evaluation pass
\* ------------------------------------------------------------------------
\* the rows of a table a getPendingBooks(seller) call asks for
IsPending(r, seller) == r.decision = Null /\ (seller = NoSeller \/ r.seller = seller)
PendingRows(table, seller) == {table[j] : j \in {i \in 1..Len(table) : IsPending(table[i], seller)}}

\* a list holds rows of the set, each once, oldest first, and no row left out
\* is older than a row of the list
OldestFirst(list, rows) ==
    /\ \A j \in 1..Len(list) : list[j] \in rows
    /\ \A i, j \in 1..Len(list) : i < j =>
           /\ list[i].isbn # list[j].isbn
           /\ list[i].scraped_at <= list[j].scraped_at
    /\ \A r \in rows :
           (\A j \in 1..Len(list) : list[j] # r) =>
               \A j \in 1..Len(list) : list[j].scraped_at <= r.scraped_at
Complete(list, rows) == \A r \in rows : \E j \in 1..Len(list) : list[j] = r

\* the lookups of the current pass, in the order of the calls
Lookups == SelectSeq(log.events, LAMBDA e : e.e = "lookup")
InListOrder ==
    /\ Len(Lookups) <= Len(log.pending.list)
    /\ \A j \in 1..Len(Lookups) : Lookups[j].isbn = log.pending.list[j].isbn

\* C11 as stated: every getPendingBooks call returns all the pending rows
\* (of the seller, when one is given), each once, oldest first, and the
\* lookups of the pass follow the list
C11_AsStated ==
    log.pending.n > 0 =>
        /\ OldestFirst(log.pending.list, PendingRows(log.pending.table, log.pending.seller))
        /\ Complete(log.pending.list, PendingRows(log.pending.table, log.pending.seller))
        /\ InListOrder

\* C11: getPendingBooks returns pending rows (of the seller, when one is
\* given), each once, oldest first: all of them when no request of the
\* read fails, and the oldest ones, those of the requests before the
\* failed one, when a request fails; the lookups of the pass are issued in
\* the order of the list
C11_PendingOldestFirst ==
    log.pending.n > 0 =>
        LET rows == PendingRows(log.pending.table, log.pending.seller)
        IN  /\ OldestFirst(log.pending.list, rows)
            /\ log.pending.failAt = 0 => Complete(log.pending.list, rows)
            /\ log.pending.failAt # 0 =>
                   Len(log.pending.list) = (log.pending.failAt - 1) * StorePageSize
            /\ InListOrder

\* a list that took more than one request, of rows the table does not hold
\* oldest first, and every entry looked up
C11_Witness ==
    /\ log.pending.n > 0
    /\ log.pending.failAt = 0
    /\ Len(log.pending.list) > StorePageSize
    /\ \E i, j \in 1..Len(log.pending.table) :
           /\ i < j
           /\ IsPending(log.pending.table[i], log.pending.seller)
           /\ IsPending(log.pending.table[j], log.pending.seller)
           /\ log.pending.table[i].scraped_at > log.pending.table[j].scraped_at
    /\ Len(Lookups) = Len(log.pending.list)

\* C12: every lookup of a pass, the first included, comes directly after an
\* acquisition of the rate limiter, so that an acquisition lies between any
\* two lookups
C12_AcquireBeforeLookup ==
    \A j \in 1..Len(log.events) :
        log.events[j].e = "lookup" => j > 1 /\ log.events[j - 1].e = "acquire"

\* a pass with a second lookup
C12_Witness ==
    /\ Len(Lookups) >= 2
    /\ log.events[Len(log.events)].e = "lookup"

\* ------------------------------------------------------------------------
\* Errors of a crawl
\* ------------------------------------------------------------------------
\* the offset the store holds for a search after a crawl: the last one
\* saved by the crawl, or the one from before it
LastSaved(crawl) == IF crawl.stored # NoCheckpoint THEN crawl.stored ELSE crawl.atStart

\* C13: when the crawl of a search throws, main goes on with the next
\* search (or with the summary after the last one), the checkpoint of the
\* search is the last saved one, and the search is not crawled again in
\* this run
C13_ThrowSkipsSearch ==
    /\ lastCrawl.ended = "thrown" =>
           /\ pc = NextPc(lastCrawl.search)
           /\ pc = "getCheckpoint" => searchIdx = lastCrawl.search + 1
           /\ checkpoint[lastCrawl.search] = LastSaved(lastCrawl)
    /\ pc # "done" => searchIdx \notin log.threw

\* a crawl has thrown after a page whose checkpoint was saved, and the
\* next search is about to start
C13_Witness ==
    /\ lastCrawl.ended = "thrown"
    /\ lastCrawl.stored > 0
    /\ pc = "getCheckpoint"
    /\ lastCrawl.search \in log.threw

\* ------------------------------------------------------------------------
\* The store
\* ------------------------------------------------------------------------
Evaluated(row) == row.evaluated_at # NullTime

\* a step changes the decision of a row only by a successful evaluation
\* write for its isbn, which leaves it with a decision and evaluated_at;
\* a row the step adds has neither
DecidedByWriteOnly ==
    \A j \in 1..Len(catalog') :
        IF j > Len(catalog)
        THEN catalog'[j].decision = Null /\ ~Evaluated(catalog'[j])
        ELSE catalog'[j].decision # catalog[j].decision =>
                 /\ lastWrite'.n = lastWrite.n + 1
                 /\ lastWrite'.ok
                 /\ lastWrite'.isbn = catalog[j].isbn
                 /\ catalog'[j].decision # Null
                 /\ Evaluated(catalog'[j])

\* C14: in every state of the store the decision of a row is null exactly
\* when its evaluated_at is null, that is when no evaluation write has
\* succeeded for it: a new row has neither, a successful write sets both
C14_DecisionIffEvaluated ==
    /\ [](\A j \in 1..Len(catalog) : catalog[j].decision = Null <=> ~Evaluated(catalog[j]))
    /\ [](lastWrite.n > 0 /\ lastWrite.ok =>
             \A j \in RowsOf(catalog, lastWrite.isbn) :
                 catalog[j].decision # Null /\ Evaluated(catalog[j]))
    /\ [][DecidedByWriteOnly]_vars

\* the table holds a row inserted by this run that is still undecided and
\* a row this run's last write has decided
C14_Witness ==
    /\ lastPage.n > 0
    /\ lastWrite.n > 0 /\ lastWrite.ok
    /\ \E j \in RowsOf(catalog, lastWrite.isbn) :
           RowsOf(lastWrite.before, lastWrite.isbn) # {} /\
           lastWrite.before[j].decision = Null /\ catalog[j].decision # Null
    /\ \E j \in 1..Len(catalog) : j > Len(lastPage.before) /\ catalog[j].decision = Null

\* ------------------------------------------------------------------------
\* The batched main's resume loop
\* ------------------------------------------------------------------------
\* a step fetches a page of the search the last page of this run was
\* fetched for
NextPageOfSearch ==
    /\ lastPage.n > 0
    /\ lastPage'.n = lastPage.n + 1
    /\ lastPage'.search = lastPage.search

\* C15: within one search of one run every page is fetched at a higher
\* offset than the page before it, across the iterations of the resume loop
\* and after a failed checkpoint save as well
C15_IncreasingOffsets ==
    [][NextPageOfSearch => lastPage'.offset > lastPage.offset]_vars

\* ------------------------------------------------------------------------
\* insertBooks
\* ------------------------------------------------------------------------
\* what the store answers to the insert of the j-th book of the last
\* insertBooks call: another error than 23505, 23505 because a row of the
\* table or an earlier book of the batch that was stored has the isbn, or
\* no error
Refused(j) == j \in lastPage.errs
Duplicate(j) ==
    /\ ~Refused(j)
    /\ \/ lastPage.books[j].isbn \in Isbns(lastPage.before)
       \/ \E i \in 1..(j - 1) : ~Refused(i) /\ lastPage.books[i].isbn = lastPage.books[j].isbn
Stored(j) == ~Refused(j) /\ ~Duplicate(j)
Positions == 1..Len(lastPage.books)

\* C16: insertBooks attempts every book: each counts in exactly one of
\* saved, duplicates, errors by the store's answer to its insert, whatever
\* happened to the books before it, the three add up to the number of
\* books, and the table has grown by the books counted as saved
C16_EveryBookClassified ==
    lastPage.n > 0 =>
        /\ lastPage.errors = Cardinality({j \in Positions : Refused(j)})
        /\ lastPage.duplicates = Cardinality({j \in Positions : Duplicate(j)})
        /\ lastPage.saved = Cardinality({j \in Positions : Stored(j)})
        /\ lastPage.saved + lastPage.duplicates + lastPage.errors = Len(lastPage.books)
        /\ Len(catalog) = Len(lastPage.before) + lastPage.saved
        /\ \A j \in Positions : Stored(j) => lastPage.books[j].isbn \in Isbns(catalog)

\* a batch whose first insert is refused, whose second is a duplicate and
\* whose last is stored
C16_Witness ==
    /\ lastPage.n > 0
    /\ \E i, j, k \in Positions :
           i < j /\ j < k /\ Refused(i) /\ Duplicate(j) /\ Stored(k)
    /\ lastPage.saved >= 1 /\ lastPage.duplicates >= 1 /\ lastPage.errors >= 1

EvalPcs == {"evaluate", "evalTokens0", "evalTokens", "evalLookup", "evalSleep"}
Batched == orch = "batched" /\ run' = run

\* main leaves the while loop of the current search
LeavesSearch == pc # "done" /\ (searchIdx' # searchIdx \/ pc' = "done")

\* a crawl that did not complete leaves the stored checkpoints as they are
\* when it returns
KeepsCheckpoint ==
    Batched /\ pc = "scraped" /\ ~scraper.completed => checkpoint' = checkpoint

\* an evaluatePendingBooks pass, once begun, is left at its end only
PassRunsToEnd ==
    Batched /\ pc \in EvalPcs /\ pc' \notin EvalPcs => eval'.idx > Len(eval'.pending)

\* after the pass that follows a crawl that did not complete, main reads
\* the checkpoint of the same search
ResumesSameSearch ==
    Batched /\ pc \in EvalPcs /\ pc' \notin EvalPcs /\ ~searchDone =>
        pc' = "getCheckpoint" /\ searchIdx' = searchIdx

C18_DelayAfterLookup ==
    /\ \A j \in 1..(Len(log.events) - 1) :
           log.events[j].e = "lookup" => log.events[j + 1].e = "sleep"
    /\ pc \in {"evalTokens0", "evalTokens", "evalLookup"} /\ Len(log.events) > 0 =>
           log.events[Len(log.events)].e # "lookup"

\* a pass with a no-data entry and an evaluated entry, each followed by the
\* delay, and the acquisition for a further entry begun after it
C18_Witness ==
    /\ eval.noData >= 1
    /\ eval.evaluated > eval.noData
    /\ Len(Lookups) = eval.evaluated
    /\ pc = "evalTokens"
    /\ log.events[Len(log.events)].e = "sleep"

\* a step is an iteration of the pass up to its sleep
Iteration == lastLookup'.n = lastLookup.n + 1

\* C19: at every point of a pass evaluated is the sum of buy, review,
\* reject and noData, is the number of lookups made, and is not above the
\* length of the pending list; an entry without data adds one to noData
\* and nothing to reject, an entry with data adds nothing to noData; a pass
\* that has gone through its list has evaluated equal to the list's length,
\* whether its writes succeeded or not
C19_CountersAddUp ==
    /\ [](/\ eval.evaluated = eval.buy + eval.review + eval.reject + eval.noData
          /\ eval.evaluated <= Len(eval.pending)
          /\ eval.evaluated = Len(Lookups)
          /\ eval.idx > Len(eval.pending) => eval.evaluated = Len(eval.pending))
    /\ [][Iteration =>
             /\ eval'.evaluated = eval.evaluated + 1
             /\ IF lastLookup'.found
                THEN eval'.noData = eval.noData
                ELSE eval'.noData = eval.noData + 1 /\ eval'.reject = eval.reject]_vars

\* a pass has gone through a list with an entry without data and its last
\* write has failed
C19_Witness ==
    /\ PassOver
    /\ eval.noData >= 1
    /\ eval.evaluated = Len(eval.pending)
    /\ eval.evaluated >= 2
    /\ ~lastWrite.ok

\* main is in the while loop of search s of the batched main
InLoop(s) ==
    /\ orch = "batched"
    /\ searchIdx = s
    /\ pc \in {"getCheckpoint", "scrape", "scraped"} \cup EvalPcs

\* a step ends an iteration of the while loop and begins the next
GoesRound ==
    /\ Batched
    /\ pc \in {"scrape", "scraped"} \cup EvalPcs
    /\ pc' = "getCheckpoint"
    /\ searchIdx' = searchIdx

\* C20: the resume loop of a search ends.  An iteration is followed by
\* another only when its crawl returned without completed = true and saved
\* an entry, and then fewer keys of the search's result set are missing
\* from the table than when the iteration read the checkpoint, whatever the
\* checkpoint reads and writes did; so main leaves the loop of every search
C20_ResumeLoopTerminates ==
    /\ [][GoesRound =>
             /\ ~scraper.completed
             /\ batchNew > 0
             /\ lastCrawl.ended = "stopped"
             /\ Missing(upstream[searchIdx], catalog') < log.missing]_vars
    /\ \A s \in 1..NumSearches : InLoop(s) ~> ~InLoop(s)

\* the loop has gone round after a crawl whose checkpoint save failed, or
\* the read of the checkpoint has just failed: a crawl of a resumed search
\* starts again at offset 0
C20_Witness ==
    /\ orch = "batched"
    /\ log.resumed
    /\ pc = "scrape"
    /\ lastPage.n > 0 /\ lastPage.search = searchIdx
    /\ scraper.offset = 0
    /\ scraper.totalScraped = 0
    /\ Missing(upstream[searchIdx], catalog) < Missing(upstream[searchIdx], <<>>)

====
